---- MODULE Spec2Model ----
(***************************************************************************)
(* H3 world geometry generator: the mesh builder (mesh.rs), the glTF       *)
(* exporter (export.rs) and the chunk pipeline (world_gen.rs, main.rs).    *)
(*                                                                         *)
(* Numbers.  A 32-bit float coordinate is a record [finite, ticks]: a      *)
(* finite value is a whole number of ticks, one tick being                 *)
(* 1/(SCALE * TicksPerEps), so that value * SCALE = ticks / TicksPerEps    *)
(* and the quantization epsilon 1/SCALE is TicksPerEps ticks.  A value     *)
(* that is not finite is NaN32.  The unsigned 32-bit width of an exported  *)
(* index is U32Bits bits wide here (TLC's integers are 32-bit signed, so   *)
(* 2^32 itself cannot be written).                                         *)
(***************************************************************************)
EXTENDS Integers, Sequences, FiniteSets, TLC

VARIABLES
    world_res,      \* gen_world_chunks argument
    chunk_res,      \* gen_world_chunks argument
    pc,             \* position in gen_world_chunks, or "api" for direct mesh use
    result,         \* "none" | "Ok" | "ConfigError" | "IoError"
    returned,       \* the ProcessingStats returned with Ok
    dir_created,    \* output/<prefix> exists
    fs,             \* the files on disk: name -> content
    chunk_cells,    \* the chunk cells of the plan
    chunk_idx,      \* index of the chunk in progress (0-based)
    children,       \* world cells of the chunk in progress
    cell_idx,       \* index of the next world cell (0-based)
    mesh,           \* the Mesh under construction
    chunk_stats,    \* ProcessingStats of the chunk in progress
    global_stats,   \* ProcessingStats summed over the chunks
    attempted,      \* history: the process_single_cell calls made, in order
    chunk_log,      \* history: chunk_stats of every chunk, at its export
    last_call,      \* history: the latest process_single_cell call
    faults,         \* history: number of cells given a non-finite projection
    calls,          \* history: the direct add_vertex calls and their results
    export_result   \* result of the latest export_gltf call

vars == <<world_res, chunk_res, pc, result, returned, dir_created, fs,
          chunk_cells, chunk_idx, children, cell_idx, mesh, chunk_stats,
          global_stats, attempted, chunk_log, last_call, faults, calls,
          export_result>>

----------------------------------------------------------------------------
(* Bounds of the model *)

\* ticks per quantization epsilon (1/SCALE)
TicksPerEps == 4
\* width of the exported index type in bits
U32Bits == 6
\* number of direct add_vertex calls in VertexSpec
MaxVertexCalls == 3
\* number of add_vertex / add_triangle calls in ExportSpec
MaxBuildVertices == 2
MaxBuildTriangles == 2
\* the grid: base cells, children per cell and resolution step
NumBaseCells == 2
Fanout == 2
\* largest world resolution of a run that passes validation, and its size
MaxWorldRes == 2
MaxCells == 9
\* number of cells per run whose projection is not finite
MaxFaults == 2

----------------------------------------------------------------------------
(* 32-bit floats *)

Fin(t) == [finite |-> TRUE, ticks |-> t]

NaN32 == [finite |-> FALSE, ticks |-> 0]

is_finite(x) == x.finite

\* x.iter().all(|&x| x.is_finite())
AllFinite(p) == \A i \in 1..3 : is_finite(p[i])

\* integer division truncating toward zero
TruncDiv(n, d) == IF n >= 0 THEN n \div d ELSE -((-n) \div d)

FloorDiv(n, d) == n \div d

\* (v as f64 * SCALE) as i64: a float-to-integer cast truncates toward zero
\* and sends NaN to 0
ScaleToI64(x) == IF is_finite(x) THEN TruncDiv(x.ticks, TicksPerEps) ELSE 0

----------------------------------------------------------------------------
(* mesh.rs *)

NewMesh == [vertices |-> <<>>, colors |-> <<>>, indices |-> <<>>,
            vertex_map |-> {}]

QuantizeKey_Floor(vertex) ==
    [i \in 1..3 |-> IF is_finite(vertex[i])
                    THEN FloorDiv(vertex[i].ticks, TicksPerEps) ELSE 0]

QuantizeKey(vertex) == [i \in 1..3 |-> ScaleToI64(vertex[i])]

\* the HashMap<[i64; 3], usize> is a set of <<key, index>> entries
MapKeys(vm) == {e[1] : e \in vm}

MapGet(vm, key) == (CHOOSE e \in vm : e[1] = key)[2]

MapInsert(vm, key, index) == {e \in vm : e[1] # key} \cup {<<key, index>>}

AddVertex_Overwrite(m, vertex, color) ==
    LET key == QuantizeKey(vertex) IN
    IF key \in MapKeys(m.vertex_map)
    THEN LET index == MapGet(m.vertex_map, key) IN
         [mesh |-> [m EXCEPT !.colors[index + 1] = color], index |-> index]
    ELSE LET index == Len(m.vertices) IN
         [mesh |-> [m EXCEPT !.vertices = Append(@, vertex),
                              !.colors = Append(@, color),
                              !.vertex_map = MapInsert(@, key, index)],
          index |-> index]

AddVertex_OneBased(m, vertex, color) ==
    LET key == QuantizeKey(vertex) IN
    IF key \in MapKeys(m.vertex_map)
    THEN [mesh |-> m, index |-> MapGet(m.vertex_map, key)]
    ELSE LET index == Len(m.vertices) + 1 IN
         [mesh |-> [m EXCEPT !.vertices = Append(@, vertex),
                              !.colors = Append(@, color),
                              !.vertex_map = MapInsert(@, key, index)],
          index |-> index]

\* Mesh::add_vertex: the mesh after the call and the index returned
AddVertex(m, vertex, color) ==
    LET key == QuantizeKey(vertex) IN
    IF key \in MapKeys(m.vertex_map)
    THEN [mesh |-> m, index |-> MapGet(m.vertex_map, key)]
    ELSE LET index == Len(m.vertices) IN
         [mesh |-> [m EXCEPT !.vertices = Append(@, vertex),
                              !.colors = Append(@, color),
                              !.vertex_map = MapInsert(@, key, index)],
          index |-> index]

\* Mesh::add_triangle
AddTriangle(m, triangle) == [m EXCEPT !.indices = @ \o triangle]

\* Mesh::stats
MeshStats(m) == [vertex_count |-> Len(m.vertices),
                 triangle_count |-> Len(m.indices) \div 3]

----------------------------------------------------------------------------
(* export.rs *)

\* number of values of the exported index type
U32Modulus == 2 ^ U32Bits

\* index as u32: the cast keeps the low bits
AsU32(index) == index % U32Modulus

\* f32::to_le_bytes: four bytes, each named by the value and its place
F32ToLeBytes(x) == [k \in 1..4 |-> <<"f32", x, k>>]

\* u32::to_le_bytes
U32ToLeBytes(n) == [k \in 1..4 |-> <<"u8", (n \div (256 ^ (k - 1))) % 256, k>>]

RECURSIVE Flatten(_)
Flatten(ss) == IF ss = <<>> THEN <<>> ELSE Head(ss) \o Flatten(Tail(ss))

\* the bytes of a sequence of [f32; 3]
Vec3Bytes(vs) ==
    Flatten([i \in 1..Len(vs) |->
               F32ToLeBytes(vs[i][1]) \o F32ToLeBytes(vs[i][2])
               \o F32ToLeBytes(vs[i][3])])

IndexBytes(is) == Flatten([i \in 1..Len(is) |-> U32ToLeBytes(AsU32(is[i]))])

\* binary_data of write_binary_data: vertices, then colors, then indices
BinaryData(m) == Vec3Bytes(m.vertices) \o Vec3Bytes(m.colors) \o IndexBytes(m.indices)

\* what a file-system call may do: succeed, fail to create the file, fail
\* while writing it (nothing or half of it written), or fail on the
\* descriptor once the binary file is complete
IoOutcomes == {"ok", "create_fail", "write_fail_empty", "write_fail_half",
               "gltf_fail"}

FsWrite(files, name, content) ==
    [n \in DOMAIN files \cup {name} |-> IF n = name THEN content ELSE files[n]]

\* write_binary_data: the files after the call and its result
WriteBinaryData(files, m, filename, io) ==
    LET binary_data == BinaryData(m) IN
    CASE io = "create_fail" -> [fs |-> files, result |-> "IoError"]
      [] io = "write_fail_empty" ->
            [fs |-> FsWrite(files, filename, <<>>), result |-> "IoError"]
      [] io = "write_fail_half" ->
            [fs |-> FsWrite(files, filename,
                            SubSeq(binary_data, 1, Len(binary_data) \div 2)),
             result |-> "IoError"]
      [] OTHER -> [fs |-> FsWrite(files, filename, binary_data), result |-> "Ok"]

GltfDescriptor_Uv(m, binary_uri) ==
    LET vertex_buffer_size == Len(m.vertices) * 12
        color_buffer_size == Len(m.colors) * 8
        index_buffer_size == Len(m.indices) * 4
        total_buffer_size == vertex_buffer_size + color_buffer_size + index_buffer_size
    IN [accessors |-> <<
            [bufferView |-> 0, componentType |-> 5126, count |-> Len(m.vertices),
             type |-> "VEC3", byteOffset |-> 0],
            [bufferView |-> 1, componentType |-> 5126, count |-> Len(m.colors),
             type |-> "VEC2", byteOffset |-> 0],
            [bufferView |-> 2, componentType |-> 5125, count |-> Len(m.indices),
             type |-> "SCALAR", byteOffset |-> 0]>>,
        bufferViews |-> <<
            [buffer |-> 0, byteOffset |-> 0, byteLength |-> vertex_buffer_size],
            [buffer |-> 0, byteOffset |-> vertex_buffer_size,
             byteLength |-> color_buffer_size],
            [buffer |-> 0, byteOffset |-> vertex_buffer_size + color_buffer_size,
             byteLength |-> index_buffer_size]>>,
        buffers |-> <<[byteLength |-> total_buffer_size, uri |-> binary_uri]>>]

\* the JSON document of export_gltf (the fields that vary with the mesh)
GltfDescriptor(m, binary_uri) ==
    LET vertex_buffer_size == Len(m.vertices) * 12
        color_buffer_size == Len(m.colors) * 12
        index_buffer_size == Len(m.indices) * 4
        total_buffer_size == vertex_buffer_size + color_buffer_size + index_buffer_size
    IN [accessors |-> <<
            [bufferView |-> 0, componentType |-> 5126, count |-> Len(m.vertices),
             type |-> "VEC3", byteOffset |-> 0],
            [bufferView |-> 1, componentType |-> 5126, count |-> Len(m.colors),
             type |-> "VEC3", byteOffset |-> 0],
            [bufferView |-> 2, componentType |-> 5125, count |-> Len(m.indices),
             type |-> "SCALAR", byteOffset |-> 0]>>,
        bufferViews |-> <<
            [buffer |-> 0, byteOffset |-> 0, byteLength |-> vertex_buffer_size],
            [buffer |-> 0, byteOffset |-> vertex_buffer_size,
             byteLength |-> color_buffer_size],
            [buffer |-> 0, byteOffset |-> vertex_buffer_size + color_buffer_size,
             byteLength |-> index_buffer_size]>>,
        buffers |-> <<[byteLength |-> total_buffer_size, uri |-> binary_uri]>>]

\* export_gltf: the binary file first, then the descriptor
ExportGltf(files, m, gltf_filename, binary_filename, io) ==
    LET bin == WriteBinaryData(files, m, binary_filename, io) IN
    IF bin.result # "Ok" THEN bin
    ELSE IF io = "gltf_fail" THEN [fs |-> bin.fs, result |-> "IoError"]
    ELSE [fs |-> FsWrite(bin.fs, gltf_filename,
                         GltfDescriptor(m, binary_filename)),
          result |-> "Ok"]

----------------------------------------------------------------------------
(* Values shared by the specifications *)

DefaultStats == [pentagon_count |-> 0, hexagon_count |-> 0,
                 invalid_coords |-> 0, cells_processed |-> 0]

NoCall == [made |-> FALSE]

Last(s) == s[Len(s)]

\* colour channels are held in percent: [1.0; 3] is <<100, 100, 100>>
ColorFull == <<100, 100, 100>>

ColorDim == <<30, 30, 30>>

\* the state of a process that has not entered gen_world_chunks
IdlePipeline ==
    /\ world_res = 0 /\ chunk_res = 0
    /\ result = "none" /\ returned = DefaultStats
    /\ dir_created = FALSE /\ fs = <<>>
    /\ chunk_cells = <<>> /\ chunk_idx = 0 /\ children = <<>> /\ cell_idx = 0
    /\ chunk_stats = DefaultStats /\ global_stats = DefaultStats
    /\ attempted = <<>> /\ chunk_log = <<>> /\ last_call = NoCall /\ faults = 0

PipelineUnchanged ==
    UNCHANGED <<world_res, chunk_res, result, returned, dir_created,
                chunk_cells, chunk_idx, children, cell_idx, chunk_stats,
                global_stats, attempted, chunk_log, last_call, faults>>

----------------------------------------------------------------------------
(* The grid index (h3o), as world_gen.rs uses it.  A cell is its base cell *)
(* and one digit per resolution step below it.                             *)

MaxH3Res == 15

\* h3o::Resolution::try_from(r).is_ok()
ResolutionTryFrom(r) == r \in 0..MaxH3Res

\* CellIndex::base_cells()
BaseCells == [b \in 1..NumBaseCells |-> [base |-> b, digits |-> <<>>]]

\* cell.is_pentagon(): base cell 1 is the pentagon, and its centre children
IsPentagon(cell) ==
    cell.base = 1 /\ \A i \in 1..Len(cell.digits) : cell.digits[i] = 0

\* the digits of a cell's direct children; a pentagon has one child fewer
ChildDigits(cell) ==
    IF IsPentagon(cell)
    THEN <<0>> \o [i \in 1..(Fanout - 2) |-> i + 1]
    ELSE [i \in 1..Fanout |-> i - 1]

\* cell.children(resolution): the descendants at that resolution, in order
RECURSIVE CellChildren(_, _)
CellChildren(cell, res) ==
    IF res < Len(cell.digits) THEN <<>>
    ELSE IF res = Len(cell.digits) THEN <<cell>>
    ELSE Flatten([i \in 1..Len(ChildDigits(cell)) |->
                    CellChildren([cell EXCEPT !.digits = Append(@, ChildDigits(cell)[i])],
                                 res)])

\* the number of a cell among the cells of its resolution
RECURSIVE CellNumber(_)
CellNumber(cell) ==
    IF cell.digits = <<>> THEN cell.base
    ELSE CellNumber([cell EXCEPT !.digits = SubSeq(@, 1, Len(@) - 1)]) * Fanout
         + Last(cell.digits)

\* a point given in epsilons
Point(x, y, z) == <<Fin(x * TicksPerEps), Fin(y * TicksPerEps), Fin(z * TicksPerEps)>>

\* what the projection of one cell yields: whether its centre is finite, and
\* which of its boundary vertices are not
GeomFine == [center_finite |-> TRUE, bad |-> {}]

GeomFaulty == {[center_finite |-> FALSE, bad |-> b] : b \in {{}, {2}}}
              \cup {[center_finite |-> TRUE, bad |-> b] :
                       b \in {{2}, {1, 2, 3}, {1, 2, 3, 4}}}

\* cell.vertexes().count(): 5 for a pentagon, 6 for a hexagon
VertexCount(cell) == IF IsPentagon(cell) THEN 5 ELSE 6

\* lat_lng_to_3d of the cell's centre: cells lie in a strip, neighbours
\* sharing an edge
CellCenter3d(cell, geom) ==
    LET n == CellNumber(cell) IN
    IF geom.center_finite THEN Point(4 * n - 6, 2, 1)
    ELSE <<NaN32, Fin(0), Fin(0)>>

\* lat_lng_to_3d of the cell's j-th boundary vertex
CellVertex3d(cell, j, geom) ==
    LET n == CellNumber(cell)
        ring == <<Point(4 * n - 8, 1, 0), Point(4 * n - 8, 3, 0),
                  Point(4 * n - 6, 4, 0), Point(4 * n - 4, 3, 0),
                  Point(4 * n - 4, 1, 0), Point(4 * n - 6, 0, 0)>> IN
    IF j \in geom.bad THEN <<Fin(0), NaN32, Fin(0)>> ELSE ring[j]

----------------------------------------------------------------------------
(* world_gen.rs *)

TriangulatePentagon_NoWrap(center_idx, boundary_indices) ==
    LET n == Len(boundary_indices) IN
    [i \in 1..n |-> <<center_idx, boundary_indices[i],
                      boundary_indices[IF i = n THEN n ELSE i + 1]>>]

\* triangulate_pentagon (mesh.rs): a fan around the centre
TriangulatePentagon(center_idx, boundary_indices) ==
    LET n == Len(boundary_indices) IN
    [i \in 1..n |-> <<center_idx, boundary_indices[i],
                      boundary_indices[(i % n) + 1]>>]

RECURSIVE AddTriangles(_, _)
AddTriangles(m, triangles) ==
    IF triangles = <<>> THEN m
    ELSE AddTriangles(AddTriangle(m, Head(triangles)), Tail(triangles))

\* the boundary loop of process_single_cell, from vertex j on
RECURSIVE BoundaryLoop(_, _, _, _, _, _)
BoundaryLoop(m, stats, cell, geom, j, boundary_indices) ==
    IF j > VertexCount(cell)
    THEN [mesh |-> m, stats |-> stats, boundary_indices |-> boundary_indices]
    ELSE LET vertex_3d == CellVertex3d(cell, j, geom) IN
         IF ~AllFinite(vertex_3d)
         THEN BoundaryLoop(m, [stats EXCEPT !.invalid_coords = @ + 1], cell, geom,
                           j + 1, boundary_indices)
         ELSE LET r == AddVertex(m, vertex_3d, ColorFull) IN
              BoundaryLoop(r.mesh, stats, cell, geom, j + 1,
                           Append(boundary_indices, r.index))

ProcessSingleCell_CenterFirst(m, stats, cell, geom) ==
    LET counted == IF IsPentagon(cell)
                   THEN [stats EXCEPT !.pentagon_count = @ + 1]
                   ELSE [stats EXCEPT !.hexagon_count = @ + 1]
        center_3d == CellCenter3d(cell, geom)
        c == AddVertex(m, center_3d, ColorFull) IN
    IF ~AllFinite(center_3d)
    THEN [mesh |-> c.mesh, stats |-> [counted EXCEPT !.invalid_coords = @ + 1],
          result |-> "InvalidCenter", center_idx |-> 0, boundary_indices |-> <<>>]
    ELSE LET b == BoundaryLoop(c.mesh, counted, cell, geom, 1, <<>>) IN
         IF Len(b.boundary_indices) >= 3
         THEN [mesh |-> AddTriangles(b.mesh,
                           TriangulatePentagon(c.index, b.boundary_indices)),
               stats |-> b.stats, result |-> "Ok",
               center_idx |-> c.index, boundary_indices |-> b.boundary_indices]
         ELSE [mesh |-> b.mesh, stats |-> b.stats, result |-> "InsufficientBoundary",
               center_idx |-> c.index, boundary_indices |-> b.boundary_indices]

\* process_single_cell: the mesh and the stats after the call, its result,
\* and the indices it worked with
ProcessSingleCell(m, stats, cell, geom) ==
    LET counted == IF IsPentagon(cell)
                   THEN [stats EXCEPT !.pentagon_count = @ + 1]
                   ELSE [stats EXCEPT !.hexagon_count = @ + 1]
        center_3d == CellCenter3d(cell, geom) IN
    IF ~AllFinite(center_3d)
    THEN [mesh |-> m, stats |-> [counted EXCEPT !.invalid_coords = @ + 1],
          result |-> "InvalidCenter", center_idx |-> 0, boundary_indices |-> <<>>]
    ELSE LET c == AddVertex(m, center_3d, ColorFull)
             b == BoundaryLoop(c.mesh, counted, cell, geom, 1, <<>>) IN
         IF Len(b.boundary_indices) >= 3
         THEN [mesh |-> AddTriangles(b.mesh,
                           TriangulatePentagon(c.index, b.boundary_indices)),
               stats |-> b.stats, result |-> "Ok",
               center_idx |-> c.index, boundary_indices |-> b.boundary_indices]
         ELSE [mesh |-> b.mesh, stats |-> b.stats, result |-> "InsufficientBoundary",
               center_idx |-> c.index, boundary_indices |-> b.boundary_indices]

ChunkCellsOf_Finer(res) ==
    Flatten([b \in 1..NumBaseCells |-> CellChildren(BaseCells[b], res + 1)])

\* the chunk cells of gen_world_chunks
ChunkCellsOf(res) ==
    IF res = 0 THEN BaseCells
    ELSE Flatten([b \in 1..NumBaseCells |-> CellChildren(BaseCells[b], res)])

CountCell_Always(stats, res) == [stats EXCEPT !.cells_processed = @ + 1]

\* the loop body of gen_world_chunks around process_single_cell
CountCell(stats, res) ==
    IF res = "Ok" THEN [stats EXCEPT !.cells_processed = @ + 1] ELSE stats

AddStats(a, b) ==
    [pentagon_count |-> a.pentagon_count + b.pentagon_count,
     hexagon_count |-> a.hexagon_count + b.hexagon_count,
     invalid_coords |-> a.invalid_coords + b.invalid_coords,
     cells_processed |-> a.cells_processed + b.cells_processed]

\* "{prefix}-chunk{N}.gltf" and "{prefix}-chunk{N}.bin" in output/<prefix>
ChunkFile(n, ext) == <<n, ext>>

----------------------------------------------------------------------------
(* main.rs *)

\* arg.parse::<u8>().unwrap_or(0): an argument is a number here, and one
\* outside 0..255 stands for any text that is no u8
ParseU8(arg) == IF arg \in 0..255 THEN arg ELSE 0

\* parse_cli_args: <<world_resolution, chunk_resolution>>
ParseCliArgs(args) ==
    <<IF Len(args) > 0 THEN ParseU8(args[1]) ELSE 0,
      IF Len(args) > 1 THEN ParseU8(args[2]) ELSE 0>>

----------------------------------------------------------------------------
(* Spec: one run of gen_world_chunks *)

ResInputs == (0..MaxWorldRes) \cup {14, 15, 16, 17, 255}

CliArgs == ResInputs \cup {-1, 256}

CliArgSeqs == {<<>>} \cup {<<a>> : a \in CliArgs}
              \cup {<<a, b>> : a \in CliArgs, b \in CliArgs}

\* the number of world cells of a run
PlanSize(w, c) ==
    LET cc == ChunkCellsOf(c)
        RECURSIVE Sum(_)
        Sum(i) == IF i = 0 THEN 0 ELSE Len(CellChildren(cc[i], w)) + Sum(i - 1)
    IN Sum(Len(cc))

\* runs that pass validation are kept small
RunIsSmall(w, c) ==
    (c < w /\ w <= MaxH3Res) => (w <= MaxWorldRes /\ PlanSize(w, c) <= MaxCells)

Init ==
    /\ \E args \in CliArgSeqs :
          LET p == ParseCliArgs(args) IN
          /\ RunIsSmall(p[1], p[2])
          /\ world_res = p[1]
          /\ chunk_res = p[2]
    /\ pc = "start"
    /\ result = "none" /\ returned = DefaultStats
    /\ dir_created = FALSE /\ fs = <<>>
    /\ chunk_cells = <<>> /\ chunk_idx = 0 /\ children = <<>> /\ cell_idx = 0
    /\ mesh = NewMesh
    /\ chunk_stats = DefaultStats /\ global_stats = DefaultStats
    /\ attempted = <<>> /\ chunk_log = <<>> /\ last_call = NoCall /\ faults = 0
    /\ calls = <<>>
    /\ export_result = "none"

Fail(error) ==
    /\ pc' = "done"
    /\ result' = error

GenWorldChunksBegin_DirFirst(io) ==
    /\ pc = "start"
    /\ IF io # "ok"
       THEN Fail("IoError") /\ UNCHANGED <<dir_created, chunk_cells>>
       ELSE /\ dir_created' = TRUE
            /\ IF \/ chunk_res >= world_res
                  \/ ~ResolutionTryFrom(chunk_res)
                  \/ ~ResolutionTryFrom(world_res)
               THEN Fail("ConfigError") /\ UNCHANGED chunk_cells
               ELSE /\ chunk_cells' = ChunkCellsOf(chunk_res)
                    /\ pc' = "chunk"
                    /\ UNCHANGED result
    /\ UNCHANGED <<world_res, chunk_res, returned, fs, chunk_idx, children,
                   cell_idx, mesh, chunk_stats, global_stats, attempted,
                   chunk_log, last_call, faults, calls, export_result>>

\* gen_world_chunks up to its loop: the checks, the plan, create_dir_all
GenWorldChunksBegin(io) ==
    /\ pc = "start"
    /\ IF chunk_res >= world_res
       THEN Fail("ConfigError") /\ UNCHANGED <<dir_created, chunk_cells>>
       ELSE IF ~ResolutionTryFrom(chunk_res)
       THEN Fail("ConfigError") /\ UNCHANGED <<dir_created, chunk_cells>>
       ELSE IF ~ResolutionTryFrom(world_res)
       THEN Fail("ConfigError") /\ UNCHANGED <<dir_created, chunk_cells>>
       ELSE IF io # "ok"
       THEN Fail("IoError") /\ UNCHANGED <<dir_created, chunk_cells>>
       ELSE /\ chunk_cells' = ChunkCellsOf(chunk_res)
            /\ dir_created' = TRUE
            /\ pc' = "chunk"
            /\ UNCHANGED result
    /\ UNCHANGED <<world_res, chunk_res, returned, fs, chunk_idx, children,
                   cell_idx, mesh, chunk_stats, global_stats, attempted,
                   chunk_log, last_call, faults, calls, export_result>>

\* the head of the chunk loop: the chunk's cells, a new mesh, new stats
StartChunk ==
    /\ pc = "chunk"
    /\ chunk_idx < Len(chunk_cells)
    /\ children' = CellChildren(chunk_cells[chunk_idx + 1], world_res)
    /\ mesh' = NewMesh
    /\ chunk_stats' = DefaultStats
    /\ cell_idx' = 0
    /\ pc' = "cells"
    /\ UNCHANGED <<world_res, chunk_res, result, returned, dir_created, fs,
                   chunk_cells, chunk_idx, global_stats, attempted, chunk_log,
                   last_call, faults, calls, export_result>>

\* one turn of the cell loop
ProcessCell(geom) ==
    /\ pc = "cells"
    /\ cell_idx < Len(children)
    /\ geom \in GeomFaulty => faults < MaxFaults
    /\ LET cell == children[cell_idx + 1]
           r == ProcessSingleCell(mesh, chunk_stats, cell, geom) IN
       /\ mesh' = r.mesh
       /\ chunk_stats' = CountCell(r.stats, r.result)
       /\ attempted' = Append(attempted, [chunk |-> chunk_idx, cell |-> cell_idx,
                                          result |-> r.result])
       /\ last_call' = [made |-> TRUE, cell |-> cell, geom |-> geom,
                        result |-> r.result, center_idx |-> r.center_idx,
                        boundary_indices |-> r.boundary_indices]
    /\ faults' = IF geom \in GeomFaulty THEN faults + 1 ELSE faults
    /\ cell_idx' = cell_idx + 1
    /\ UNCHANGED <<world_res, chunk_res, pc, result, returned, dir_created, fs,
                   chunk_cells, chunk_idx, children, global_stats, chunk_log,
                   calls, export_result>>

\* the end of a chunk: its stats go into the global stats and its mesh is
\* exported; a failed export ends the run
ExportChunk(io) ==
    /\ pc = "cells"
    /\ cell_idx = Len(children)
    /\ global_stats' = AddStats(global_stats, chunk_stats)
    /\ chunk_log' = Append(chunk_log, chunk_stats)
    /\ LET r == ExportGltf(fs, mesh, ChunkFile(chunk_idx + 1, "gltf"),
                           ChunkFile(chunk_idx + 1, "bin"), io) IN
       /\ fs' = r.fs
       /\ export_result' = r.result
       /\ IF r.result = "Ok"
          THEN /\ chunk_idx' = chunk_idx + 1
               /\ pc' = "chunk"
               /\ UNCHANGED result
          ELSE Fail("IoError") /\ UNCHANGED chunk_idx
    /\ UNCHANGED <<world_res, chunk_res, returned, dir_created, chunk_cells,
                   children, cell_idx, mesh, chunk_stats, attempted, last_call,
                   faults, calls>>

\* Ok(global_stats)
Finish ==
    /\ pc = "chunk"
    /\ chunk_idx = Len(chunk_cells)
    /\ returned' = global_stats
    /\ result' = "Ok"
    /\ pc' = "done"
    /\ UNCHANGED <<world_res, chunk_res, dir_created, fs, chunk_cells, chunk_idx,
                   children, cell_idx, mesh, chunk_stats, global_stats,
                   attempted, chunk_log, last_call, faults, calls, export_result>>

Next ==
    \/ \E io \in {"ok", "create_fail"} : GenWorldChunksBegin(io)
    \/ StartChunk
    \/ \E geom \in {GeomFine} \cup GeomFaulty : ProcessCell(geom)
    \/ \E io \in IoOutcomes : ExportChunk(io)
    \/ Finish

Spec == Init /\ [][Next]_vars

----------------------------------------------------------------------------
(* Claims about gen_world_chunks and process_single_cell, under Spec *)

C1_Invalid ==
    \/ chunk_res >= world_res
    \/ world_res \notin 0..15
    \/ chunk_res \notin 0..15

\* C1: with chunk_res >= world_res, or with either resolution outside 0..15,
\* gen_world_chunks returns the configuration error; no cell was processed,
\* the output directory was not created and no file was written.
C1_ConfigError ==
    (C1_Invalid /\ pc # "start") =>
        /\ pc = "done"
        /\ result = "ConfigError"
        /\ attempted = <<>>
        /\ chunk_cells = <<>>
        /\ ~dir_created
        /\ DOMAIN fs = {}

\* a run refused for a resolution out of range, the chunk resolution being
\* the lower one
C1_Witness ==
    /\ pc = "done"
    /\ result = "ConfigError"
    /\ chunk_res < world_res
    /\ world_res > 15

C2_AllFiles(n) == {ChunkFile(k, ext) : k \in 1..n, ext \in {"gltf", "bin"}}

C2_CellsOfChunk(k) == {i \in 1..Len(attempted) : attempted[i].chunk = k - 1}

\* C2 as stated: the run with world resolution 0 and chunk resolution 0
\* succeeds, with one chunk of one cell and one file pair per base cell.
C2_Original ==
    (world_res = 0 /\ chunk_res = 0 /\ pc = "done") =>
        /\ result = "Ok"
        /\ Len(chunk_log) = NumBaseCells
        /\ \A k \in 1..NumBaseCells : Cardinality(C2_CellsOfChunk(k)) = 1
        /\ DOMAIN fs = C2_AllFiles(NumBaseCells)

\* C2 amended: the run with world resolution 0 and chunk resolution 0 ends
\* with the configuration error and exports nothing; with chunk resolution 0
\* and a world resolution of 1..15 the chunk cells are the base cells, and a
\* run that returns Ok has made one chunk per base cell, holding the base
\* cell's descendants at the world resolution, and one file pair per base
\* cell.
C2_ChunkResZero ==
    /\ (world_res = 0 /\ chunk_res = 0 /\ pc # "start") =>
           /\ result = "ConfigError"
           /\ chunk_log = <<>>
           /\ DOMAIN fs = {}
    /\ (chunk_res = 0 /\ world_res \in 1..15 /\ pc \in {"chunk", "cells"}) =>
           /\ Len(chunk_cells) = NumBaseCells
           /\ \A b \in 1..NumBaseCells :
                 chunk_cells[b] = [base |-> b, digits |-> <<>>]
    /\ (chunk_res = 0 /\ result = "Ok") =>
           /\ Len(chunk_log) = NumBaseCells
           /\ \A k \in 1..NumBaseCells :
                 Cardinality(C2_CellsOfChunk(k))
                     = Len(CellChildren(BaseCells[k], world_res))
           /\ DOMAIN fs = C2_AllFiles(NumBaseCells)

\* a run with chunk resolution 0 returned Ok
C2_Witness ==
    /\ chunk_res = 0
    /\ result = "Ok"
    /\ Len(attempted) > NumBaseCells

\* C3: every entry of mesh.indices is below mesh.vertices.len(), after any
\* sequence of process_single_cell calls and so at the export of the chunk.
C3_IndicesInRange ==
    \A i \in 1..Len(mesh.indices) : mesh.indices[i] < Len(mesh.vertices)

\* a chunk is about to be exported, with triangles and with a failed cell
C3_Witness ==
    /\ pc = "cells"
    /\ cell_idx = Len(children)
    /\ Len(mesh.indices) > 0
    /\ \E i \in 1..Len(attempted) :
          /\ attempted[i].chunk = chunk_idx
          /\ attempted[i].result = "InsufficientBoundary"
    /\ \E i \in 1..Len(attempted) :
          /\ attempted[i].chunk = chunk_idx
          /\ attempted[i].result = "InvalidCenter"

\* a process_single_cell call was made in this step
CellStep == pc = "cells" /\ cell_idx' = cell_idx + 1

C8_Step ==
    (CellStep /\ ~last_call'.geom.center_finite) =>
        /\ last_call'.result = "InvalidCenter"
        /\ last_call'.boundary_indices = <<>>
        /\ mesh' = mesh
        /\ chunk_stats'.invalid_coords = chunk_stats.invalid_coords + 1
        /\ chunk_stats'.cells_processed = chunk_stats.cells_processed

\* C8: process_single_cell on a cell whose centre is not finite returns an
\* error, leaves vertices, colours and indices as they were, does not touch
\* the boundary, and adds exactly 1 to invalid_coords.
C8_InvalidCenter == [][C8_Step]_vars

\* a cell with a centre that is not finite, and a boundary vertex that is
\* not finite either, met a mesh that already had vertices
C8_Witness ==
    /\ last_call.made
    /\ ~last_call.geom.center_finite
    /\ last_call.geom.bad # {}
    /\ Len(mesh.vertices) > 0

\* the boundary vertices of the latest call that are finite, in order
C9_ValidVertices(call) ==
    LET RECURSIVE From(_)
        From(j) == IF j > VertexCount(call.cell) THEN <<>>
                   ELSE IF j \in call.geom.bad THEN From(j + 1)
                   ELSE <<CellVertex3d(call.cell, j, GeomFine)>> \o From(j + 1)
    IN From(1)

C9_Step ==
    (CellStep /\ last_call'.geom.center_finite) =>
        LET call == last_call'
            b == call.boundary_indices
            n == Len(b)
            valid == C9_ValidVertices(call)
            old == Len(mesh.indices) IN
        /\ n = Len(valid)
        /\ \A k \in 1..n : mesh'.vertices[b[k] + 1] = valid[k]
        /\ IF n >= 3
           THEN /\ n <= 6
                /\ call.result = "Ok"
                /\ Len(mesh'.indices) = old + 3 * n
                /\ SubSeq(mesh'.indices, 1, old) = mesh.indices
                /\ \A i \in 0..(n - 1) :
                      /\ mesh'.indices[old + 3 * i + 1] = call.center_idx
                      /\ mesh'.indices[old + 3 * i + 2] = b[i + 1]
                      /\ mesh'.indices[old + 3 * i + 3] = b[((i + 1) % n) + 1]
           ELSE /\ call.result = "InsufficientBoundary"
                /\ mesh'.indices = mesh.indices

\* C9: with a finite centre and N finite boundary vertices, 3 <= N <= 6,
\* process_single_cell appends exactly the N triangles (centre, boundary[i],
\* boundary[(i+1) mod N]); with N < 3 it appends none and returns an error.
C9_Fan == [][C9_Step]_vars

\* a cell with five finite boundary vertices was triangulated after another
C9_Witness ==
    /\ last_call.made
    /\ last_call.result = "Ok"
    /\ Len(last_call.boundary_indices) = 5
    /\ Len(mesh.indices) > 15

C10_PlanOrder ==
    Flatten([k \in 1..Len(chunk_cells) |->
               [i \in 1..Len(CellChildren(chunk_cells[k], world_res)) |->
                  <<k - 1, i - 1>>]])

C10_Attempted == [i \in 1..Len(attempted) |-> <<attempted[i].chunk, attempted[i].cell>>]

C10_OkCells(k) == {i \in C2_CellsOfChunk(k) : attempted[i].result = "Ok"}

RECURSIVE C10_Sum(_)
C10_Sum(log) == IF log = <<>> THEN DefaultStats
                ELSE AddStats(C10_Sum(SubSeq(log, 1, Len(log) - 1)), Last(log))

\* the number of cells of the chunks 1..n of the plan
RECURSIVE C10_CellsUpTo(_)
C10_CellsUpTo(n) ==
    IF n = 0 THEN 0
    ELSE C10_CellsUpTo(n - 1) + Len(CellChildren(chunk_cells[n], world_res))

\* C10: the cells are attempted in plan order whatever their results, every
\* chunk whose cells are done is exported, cells_processed counts the cells
\* that succeeded, the stats returned are the sum of the chunks' stats, and
\* the run ends early only on a failed export, with no later chunk touched.
C10_NoAbort ==
    dir_created =>
        /\ C10_Attempted = SubSeq(C10_PlanOrder, 1, Len(attempted))
        /\ global_stats = C10_Sum(chunk_log)
        /\ \A k \in 1..Len(chunk_log) :
              /\ chunk_log[k].cells_processed = Cardinality(C10_OkCells(k))
              /\ Cardinality(C2_CellsOfChunk(k))
                    = Len(CellChildren(chunk_cells[k], world_res))
        /\ pc = "cells" =>
              chunk_stats.cells_processed = Cardinality(C10_OkCells(chunk_idx + 1))
        /\ pc \in {"chunk", "cells"} =>
              /\ Len(chunk_log) = chunk_idx
              /\ DOMAIN fs = C2_AllFiles(chunk_idx)
              /\ result = "none"
        /\ pc = "done" =>
              \/ /\ result = "Ok"
                 /\ Len(attempted) = Len(C10_PlanOrder)
                 /\ Len(chunk_log) = Len(chunk_cells)
                 /\ DOMAIN fs = C2_AllFiles(Len(chunk_cells))
                 /\ returned = C10_Sum(chunk_log)
              \/ /\ result = "IoError"
                 /\ export_result = "IoError"
                 /\ Len(chunk_log) = chunk_idx + 1
                 /\ Len(attempted) = C10_CellsUpTo(chunk_idx + 1)
                 /\ C2_AllFiles(chunk_idx) \subseteq DOMAIN fs
                 /\ DOMAIN fs \subseteq
                       C2_AllFiles(chunk_idx) \cup {ChunkFile(chunk_idx + 1, "bin")}

\* a run of several chunks returned Ok although cells of two kinds failed
C10_Witness ==
    /\ result = "Ok"
    /\ Len(chunk_cells) >= 2
    /\ \E i \in 1..Len(attempted) : attempted[i].result = "InvalidCenter"
    /\ \E i \in 1..Len(attempted) : attempted[i].result = "InsufficientBoundary"
    /\ returned.cells_processed = Len(attempted) - 2

----------------------------------------------------------------------------
(* VertexSpec: a caller adding vertices to one mesh *)

\* coordinates around the bucket borders of the quantization, in ticks
ApiCoords == {-(TicksPerEps - 1), TicksPerEps - 1, TicksPerEps,
              TicksPerEps + 1}

ApiPositions ==
    {<<Fin(x), Fin(0), Fin(0)>> : x \in ApiCoords}
    \cup {<<Fin(0), Fin(x), Fin(0)>> : x \in ApiCoords}
    \cup {<<Fin(0), Fin(0), Fin(x)>> : x \in ApiCoords}
    \cup {<<NaN32, Fin(0), Fin(0)>>}

ApiColors == {ColorFull, ColorDim}

VertexInit ==
    /\ IdlePipeline
    /\ pc = "api"
    /\ mesh = NewMesh
    /\ calls = <<>>
    /\ export_result = "none"

\* mesh.add_vertex(vertex, color), the returned index kept in calls
ApiAddVertex(vertex, color) ==
    /\ pc = "api"
    /\ Len(calls) < MaxVertexCalls
    /\ LET r == AddVertex(mesh, vertex, color) IN
       /\ mesh' = r.mesh
       /\ calls' = Append(calls, [vertex |-> vertex, color |-> color,
                                  index |-> r.index])
    /\ PipelineUnchanged
    /\ UNCHANGED <<pc, fs, export_result>>

VertexNext == \E vertex \in ApiPositions, color \in ApiColors :
                 ApiAddVertex(vertex, color)

VertexSpec == VertexInit /\ [][VertexNext]_vars

----------------------------------------------------------------------------
(* Claims about Mesh::add_vertex, under VertexSpec *)

Abs(n) == IF n >= 0 THEN n ELSE -n

CallIds == 1..Len(calls)

FiniteCalls == {i \in CallIds : AllFinite(calls[i].vertex)}

\* the call that added a vertex just now
JustAdded == Len(calls') = Len(calls) + 1

\* the index returned by the first call whose position had this key
FirstIndexOf(key) ==
    LET first == CHOOSE i \in CallIds :
                     /\ QuantizeKey(calls[i].vertex) = key
                     /\ \A j \in 1..(i - 1) : QuantizeKey(calls[j].vertex) # key
    IN calls[first].index

C4_DedupStep ==
    LET call == Last(calls')
        key == QuantizeKey(call.vertex) IN
    (JustAdded /\ key \in MapKeys(mesh.vertex_map)) =>
        /\ call.index = FirstIndexOf(key)
        /\ mesh'.vertices = mesh.vertices
        /\ mesh'.colors = mesh.colors
        /\ mesh'.vertex_map = mesh.vertex_map

C4_State ==
    /\ \A i, j \in CallIds :
          calls[i].vertex = calls[j].vertex => calls[i].index = calls[j].index
    /\ Len(mesh.vertices) =
          Cardinality({QuantizeKey(calls[i].vertex) : i \in CallIds})
    /\ Len(mesh.colors) = Len(mesh.vertices)
    /\ \A i, j \in 1..Len(mesh.vertices) :
          QuantizeKey(mesh.vertices[i]) = QuantizeKey(mesh.vertices[j]) => i = j
    /\ \A e, f \in mesh.vertex_map : e[1] = f[1] => e = f
    /\ \A e \in mesh.vertex_map :
          /\ e[2] < Len(mesh.vertices)
          /\ QuantizeKey(mesh.vertices[e[2] + 1]) = e[1]

\* C4: add_vertex with a position whose quantization key is already present
\* returns the index first assigned to that key and leaves the vertices, the
\* colours and the key map as they were; the same position added twice gets
\* the same index, the vertex count grows by one per distinct key, and no key
\* belongs to two vertices.
C4_Dedup == [](C4_State) /\ [][C4_DedupStep]_vars

\* a position was added a second time, with another colour
C4_Witness ==
    \E i, j \in CallIds :
        /\ i < j
        /\ calls[i].vertex = calls[j].vertex
        /\ calls[i].color # calls[j].color
        /\ calls[i].index = calls[j].index
        /\ Len(mesh.vertices) < Len(calls)

\* the scaled coordinate truncated toward zero: the k with k <= t/TicksPerEps
\* < k + 1 for t >= 0, and k - 1 < t/TicksPerEps <= k for t < 0
C5_Bucket(t) ==
    CHOOSE k \in -3..3 :
        IF t >= 0
        THEN k * TicksPerEps <= t /\ t < (k + 1) * TicksPerEps
        ELSE (k - 1) * TicksPerEps < t /\ t <= k * TicksPerEps

C5_Diff(i, j, a) == Abs(calls[i].vertex[a].ticks - calls[j].vertex[a].ticks)

C5_SameBuckets(i, j) ==
    \A a \in 1..3 : C5_Bucket(calls[i].vertex[a].ticks)
                       = C5_Bucket(calls[j].vertex[a].ticks)

\* C5 as stated: two positions more than one epsilon apart in some coordinate
\* get distinct indices, and two positions less than one epsilon apart in
\* every coordinate get one index.
C5_Original ==
    \A i, j \in FiniteCalls :
        /\ (\E a \in 1..3 : C5_Diff(i, j, a) > TicksPerEps)
              => calls[i].index # calls[j].index
        /\ (\A a \in 1..3 : C5_Diff(i, j, a) < TicksPerEps)
              => calls[i].index = calls[j].index

\* C5 amended: two finite positions at least two epsilons apart in some
\* coordinate get distinct indices, and two finite positions get one index
\* exactly when their scaled coordinates truncate toward zero to the same
\* three integers.
C5_Quantization ==
    \A i, j \in FiniteCalls :
        /\ (\E a \in 1..3 : C5_Diff(i, j, a) >= 2 * TicksPerEps)
              => calls[i].index # calls[j].index
        /\ (calls[i].index = calls[j].index) <=> C5_SameBuckets(i, j)

\* both cases happened: two positions two epsilons apart, and two distinct
\* positions of one bucket more than one epsilon apart
C5_Witness ==
    /\ \E i, j \in FiniteCalls :
          /\ \E a \in 1..3 : C5_Diff(i, j, a) >= 2 * TicksPerEps
          /\ calls[i].index # calls[j].index
    /\ \E i, j \in FiniteCalls :
          /\ \E a \in 1..3 : C5_Diff(i, j, a) > TicksPerEps
          /\ calls[i].index = calls[j].index

----------------------------------------------------------------------------
(* ExportSpec: a caller building one mesh and exporting it *)

BuildPositions == {<<Fin(0), Fin(0), Fin(0)>>, <<Fin(TicksPerEps), Fin(0), Fin(0)>>,
                   <<Fin(0), Fin(-TicksPerEps), Fin(TicksPerEps)>>}

\* triangles a caller may pass: add_triangle takes any three usize values
BuildTriangles == {<<0, 1, 2>>, <<1, 0, U32Modulus + 1>>, <<U32Modulus, 0, 1>>}

BinName == <<"mesh", "bin">>

GltfName == <<"mesh", "gltf">>

ExportInit == VertexInit

\* mesh.add_vertex(vertex, color)
BuildAddVertex(vertex, color) ==
    /\ pc = "api" /\ export_result = "none"
    /\ Len(mesh.vertices) < MaxBuildVertices
    /\ mesh' = AddVertex(mesh, vertex, color).mesh
    /\ mesh' # mesh
    /\ PipelineUnchanged
    /\ UNCHANGED <<pc, fs, calls, export_result>>

\* mesh.add_triangle(triangle)
BuildAddTriangle(triangle) ==
    /\ pc = "api" /\ export_result = "none"
    /\ Len(mesh.indices) < 3 * MaxBuildTriangles
    /\ mesh' = AddTriangle(mesh, triangle)
    /\ PipelineUnchanged
    /\ UNCHANGED <<pc, fs, calls, export_result>>

\* export_gltf(&mesh, "mesh.gltf", "mesh.bin")
BuildExport(io) ==
    /\ pc = "api" /\ export_result = "none"
    /\ LET r == ExportGltf(fs, mesh, GltfName, BinName, io) IN
       /\ fs' = r.fs
       /\ export_result' = r.result
    /\ PipelineUnchanged
    /\ UNCHANGED <<pc, mesh, calls>>

ExportNext ==
    \/ \E vertex \in BuildPositions, color \in ApiColors : BuildAddVertex(vertex, color)
    \/ \E triangle \in BuildTriangles : BuildAddTriangle(triangle)
    \/ \E io \in IoOutcomes : BuildExport(io)

ExportSpec == ExportInit /\ [][ExportNext]_vars

----------------------------------------------------------------------------
(* Claims about export_gltf, under ExportSpec *)

\* C6 as stated: an export of a mesh with a triangle index beyond the
\* unsigned 32-bit range fails with an error and writes no narrowed index.
C6_Original ==
    (export_result # "none" /\ \E i \in 1..Len(mesh.indices) :
                                 mesh.indices[i] >= U32Modulus)
        => export_result # "Ok"

C7_View(k) == fs[GltfName].bufferViews[k]

C7_Bytes(k) == SubSeq(fs[BinName], C7_View(k).byteOffset + 1,
                      C7_View(k).byteOffset + C7_View(k).byteLength)

\* C7: after a successful export the binary file is vertexCount*12 +
\* vertexCount*12 + triangleCount*3*4 bytes long, the three buffer views lie
\* end to end from offset 0 and hold the positions, the colours and the
\* indices, and buffers[0].byteLength is the sum of the view lengths.
C7_Layout ==
    export_result = "Ok" =>
        LET vertexCount == Len(mesh.vertices)
            triangleCount == MeshStats(mesh).triangle_count IN
        /\ Len(fs[BinName]) = vertexCount * 12 + vertexCount * 12
                              + triangleCount * 3 * 4
        /\ C7_View(1).byteOffset = 0
        /\ C7_View(2).byteOffset = C7_View(1).byteOffset + C7_View(1).byteLength
        /\ C7_View(3).byteOffset = C7_View(2).byteOffset + C7_View(2).byteLength
        /\ fs[GltfName].buffers[1].byteLength =
             C7_View(1).byteLength + C7_View(2).byteLength + C7_View(3).byteLength
        /\ fs[GltfName].buffers[1].byteLength = Len(fs[BinName])
        /\ C7_Bytes(1) = Vec3Bytes(mesh.vertices)
        /\ C7_Bytes(2) = Vec3Bytes(mesh.colors)
        /\ Len(C7_Bytes(3)) = 4 * Len(mesh.indices)
        /\ \A k \in 1..3 : fs[GltfName].accessors[k].count * (IF k = 3 THEN 4 ELSE 12)
                             = C7_View(k).byteLength

\* a mesh with vertices and triangles was exported
C7_Witness ==
    /\ export_result = "Ok"
    /\ Len(mesh.vertices) >= 2
    /\ Len(mesh.indices) >= 6

====
